---- MODULE Spec2Model ----
(***************************************************************************)
(* Model of the session synchronisation coordinator                        *)
(* (src/app/lib/SessionManager.js).                                        *)
(*                                                                         *)
(* JavaScript values are encoded as follows.                               *)
(*   - ids (strings): TLA+ strings; Undefined and Null are the strings     *)
(*     "undefined" and "null", which are no ids of the repository.         *)
(*   - numbers: <<n>>; <<>> stands for undefined before a conversion and   *)
(*     for NaN after it.  A JSON null ordinal behaves as 0 everywhere the  *)
(*     handlers use it (toNumber(null) = 0, and both are falsy).           *)
(*   - objects: functions from a set of string keys; a key whose value is  *)
(*     undefined is in the domain with the value None.                     *)
(*   - a content object (shabad, bani) is held by its id; its lines are     *)
(*     Lines(id).                                                          *)
(***************************************************************************)
EXTENDS Integers, Sequences, FiniteSets, TLC

Undefined == "undefined"
Null == "null"
None == <<>>
Some(v) == <<v>>

Truthy(id) == id # Undefined /\ id # Null /\ id # ""

(***************************************************************************)
(* The content repository (./db): two shabads and two banis.               *)
(***************************************************************************)
Line(id, orderId) == [id |-> id, orderId |-> orderId]

ShabadIds == {"s1", "s2"}
BaniIds == {"b0", "b1"}

Lines(content) ==
  CASE content = "s1" -> <<Line("l1", 0), Line("l2", 1)>>
    [] content = "s2" -> <<Line("l3", 2), Line("l4", 3)>>
    [] content = "b1" -> <<Line("l5", 0), Line("l6", 1)>>
    [] OTHER -> <<>>

ShabadOrderId(id) == IF id = "s1" THEN 1 ELSE 2

LineIds(content) == {Lines(content)[i].id : i \in 1..Len(Lines(content))}

\* getShabad( shabadId ): the shabad with that id, or nothing.
getShabad(shabadId) == IF shabadId \in ShabadIds THEN shabadId ELSE Null

\* getShabadByOrderId( orderId ): the shabad at that ordinal, or nothing.
getShabadByOrderId(orderId) ==
  IF orderId = None THEN Null
  ELSE IF \E s \in ShabadIds : ShabadOrderId(s) = orderId[1]
       THEN CHOOSE s \in ShabadIds : ShabadOrderId(s) = orderId[1]
       ELSE Null

\* getBaniLines( baniId ): the bani with its lines, or nothing.
getBaniLines(baniId) == IF baniId \in BaniIds THEN baniId ELSE Null

\* getShabadRange(): the ranges the repository may report.
ShabadRanges == {<<0, 2>>, <<1, 2>>}

(***************************************************************************)
(* lodash clamp and the `|| null` that follows it.                         *)
(***************************************************************************)
\* clamp( number, lower, upper ): NaN stays NaN.
clamp(number, lower, upper) ==
  IF number = None THEN None
  ELSE LET a == IF number[1] <= upper THEN number[1] ELSE upper
       IN  Some(IF a >= lower THEN a ELSE lower)

\* x || null, for a number x: 0 and NaN are falsy.
OrNull(x) == IF x = None \/ x = Some(0) THEN None ELSE x

(***************************************************************************)
(* History (./History): an ordered log of line selections.                 *)
(* An entry also carries `stale`, set on the entries that outlive a reset. *)
(***************************************************************************)
Entry(line, isTransition) ==
  [line |-> line, isTransition |-> isTransition, stale |-> FALSE]

update(history, line, isTransition) == Append(history, Entry(line, isTransition))

getTransitionsOnly(history) == SelectSeq(history, LAMBDA e : e.isTransition)

reset(history) == <<>>

MarkStale(history) == [i \in 1..Len(history) |-> [history[i] EXCEPT !.stale = TRUE]]

(***************************************************************************)
(* Settings objects.  A client settings object has three optional fields:  *)
(* security.options.private (nested), theme (scalar) and tags (array).     *)
(***************************************************************************)
Obj(private, theme, tags) == [private |-> private, theme |-> theme, tags |-> tags]
EmptyObj == Obj(None, None, None)

\* get( settings, 'security.options.private' ), as a condition.
IsPrivate(entry) == entry # None /\ entry[1].private = Some(TRUE)

\* An arrayMerge that concatenates, as deepmerge does by default.
arrayMergeConcat(target, source) == target \o source

\* arrayMerge: ( _, source ) => source
arrayMerge(target, source) == source

\* deepmerge of two settings objects: keys of the source win, objects recurse.
mergeObject(target, source) ==
  Obj(IF source.private # None THEN source.private ELSE target.private,
      IF source.theme # None THEN source.theme ELSE target.theme,
      IF source.tags = None THEN target.tags
      ELSE IF target.tags = None THEN source.tags
      ELSE Some(arrayMerge(target.tags[1], source.tags[1])))

\* deepmerge of two values held under the same key of two objects.
mergeValue(target, source) ==
  IF source = None THEN None
  ELSE IF target = None THEN source
  ELSE Some(mergeObject(target[1], source[1]))

\* deepmerge of two objects keyed by host.
deepmerge(target, source) ==
  [k \in DOMAIN target \cup DOMAIN source |->
     IF k \notin DOMAIN source THEN target[k]
     ELSE IF k \notin DOMAIN target THEN source[k]
     ELSE mergeValue(target[k], source[k])]

\* { ...object, [ key ]: value }
With(object, key, value) ==
  [k \in DOMAIN object \cup {key} |-> IF k = key THEN value ELSE object[k]]

\* object[ key ], undefined when the key is missing
Get(object, key) == IF key \in DOMAIN object THEN object[key] ELSE None

EmptyObject == [k \in {} |-> None]


(***************************************************************************)
(* Clients and the inputs of the events.                                   *)
(***************************************************************************)
Clients == {"c1", "c2", "c3"}
Hosts == {"h1", "h2"}
HostOf(client) == IF client = "c2" THEN "h2" ELSE "h1"

MaxPending == 1
MaxHistory == 2
MaxRacing == 2

LinePayload(lineId, lineOrderId) == [lineId |-> lineId, lineOrderId |-> lineOrderId]

\* Destructuring { lineId, lineOrderId } from a string finds neither field.
StringPayload(id) == LinePayload(Undefined, None)

LinePayloads ==
  {LinePayload(Undefined, None), LinePayload("l2", None), LinePayload(Undefined, Some(9))}

\* Line payloads for the resolution: no field, an explicit id next to an
\* ordinal, and ordinals below, at and above the ordinals of the lines.
ResolvePayloads ==
  {LinePayload(Undefined, None), LinePayload("l2", Some(0))} \cup
  {LinePayload(Undefined, Some(n)) : n \in {0 - 1, 0, 1, 3, 9}}

ShabadPayload(shabadId, shabadOrderId, rest) ==
  [shabadId |-> shabadId, shabadOrderId |-> shabadOrderId, rest |-> rest]

ShabadPayloads ==
  {ShabadPayload("s1", None, LinePayload(Undefined, None)),
   ShabadPayload("s2", None, LinePayload("l1", None)),
   ShabadPayload("sX", None, LinePayload(Undefined, None))}

OrdinalPayloads ==
  {ShabadPayload("s1", n, LinePayload(Undefined, None)) :
     n \in {None, Some(0 - 1), Some(0), Some(1), Some(2), Some(9)}}

BaniPayloads == {"b0", "b1", "bX"}
MainLinePayloads == {"l1"}
Statuses == {"ready"}

Outcomes == {"rejected", "nothing", "value"}

(***************************************************************************)
(* The Updater (src/unnamed/part_001): one update loop for the database    *)
(* and, under electron, one for the application.  run is where the current *)
(* run of a loop is suspended ("idle" before start, "none" between runs),  *)
(* timer whether its setTimeout is pending.  emitted, done and failed      *)
(* record the events, the finished steps and the failures of the current   *)
(* run of checkDatabaseUpdates; op, loop and outcome describe the last     *)
(* step.                                                                   *)
(***************************************************************************)
Loops == {"database", "application"}

\* The awaited steps of updateDatabase, in order.
UpdateSteps == <<"remove", "extract", "destroy", "move">>

Versions == {"1.0.0", "1.1.0"}

\* The updater after its constructor, with the value of electronVersion and
\* of the setting system.automaticUpdates.
Constructed(electron, enabled) ==
  [electron |-> electron, enabled |-> enabled,
   run |-> [l \in Loops |-> "idle"], timer |-> [l \in Loops |-> FALSE],
   version |-> <<>>, emitted |-> <<>>, done |-> {}, failed |-> FALSE,
   op |-> "constructor", loop |-> "", outcome |-> ""]

(***************************************************************************)
(* State.                                                                  *)
(***************************************************************************)
VARIABLES
  session,         \* this.session
  globalSettings,  \* the server settings kept by settingsManager
  clients,         \* the connected clients, in connection order
  handlers,        \* the onShabad and onBani invocations suspended on a lookup
  sent,            \* the messages emitted by the last step, in order
  last,            \* the event the last step handled
  afterClear,      \* "cleared" after a clearHistory, "selected" after the one
                   \* line selection that follows it, "" otherwise
  updater          \* the Updater of the server (src/unnamed/part_001)

vars == <<session, globalSettings, clients, handlers, sent, last, afterClear, updater>>

Msg(to, event, payload) == [to |-> to, event |-> event, payload |-> payload]
Broadcast(event, payload) == Msg("*", event, payload)

\* A suspended invocation; `overtaken` records that a request that arrived
\* after this one has already had its content applied.
Handler ==
  [pc |-> "", client |-> "", payload |-> ShabadPayload(Undefined, None, LinePayload(Undefined, None)),
   baniId |-> Undefined, range |-> <<0, 0>>, fn |-> "", ord |-> None, id |-> Undefined,
   overtaken |-> FALSE]

NoLine ==
  [called |-> FALSE, threw |-> FALSE, payload |-> LinePayload(Undefined, None),
   transition |-> FALSE, newLineId |-> Undefined]

\* The event of a step: whether its handler ran to its end (ok), the client it
\* is about, the line selection it made, the hosts whose settings it names,
\* and whether the lookup it waited for found content ("found", "failed").
Event(op, ok, client, line, names, lookup) ==
  [op |-> op, ok |-> ok, client |-> client, line |-> line, names |-> names,
   lookup |-> lookup]

Connected == {clients[i] : i \in 1..Len(clients)}

Init ==
  /\ session = [bani |-> Null, lineId |-> Null, shabad |-> Null, viewedLines |-> {},
                mainLineId |-> Null, history |-> <<>>, settings |-> EmptyObject,
                status |-> Null]
  /\ globalSettings = EmptyObj
  /\ clients = <<>>
  /\ handlers = <<>>
  /\ sent = <<>>
  /\ last = Event("init", TRUE, "", NoLine, {}, "")
  /\ afterClear = ""
  /\ updater = Constructed(FALSE, TRUE)

(***************************************************************************)
(* getPublicSettings and synchronise.                                      *)
(***************************************************************************)
\* A getPublicSettings that strips nothing.
getPublicSettingsUnstripped(settings) == settings

getPublicSettings(settings) ==
  [host \in DOMAIN settings |-> IF IsPrivate(settings[host]) THEN None ELSE settings[host]]

\* The content message of synchronise: bani if set, else shabad.
ContentMsg(client, s) ==
  IF s.bani # Null THEN Msg(client, "bani", s.bani) ELSE Msg(client, "shabad", s.shabad)

\* A synchronise that sends the viewed lines before the line.
synchroniseReordered(client, s) ==
  << ContentMsg(client, s),
     Msg(client, "viewedLines", s.viewedLines),
     Msg(client, "line", s.lineId),
     Msg(client, "mainLine", s.mainLineId),
     Msg(client, "status", s.status),
     Msg(client, "history", getTransitionsOnly(s.history)),
     Msg(client, "settings", getPublicSettings(s.settings)) >>

synchronise(client, s) ==
  << ContentMsg(client, s),
     Msg(client, "line", s.lineId),
     Msg(client, "viewedLines", s.viewedLines),
     Msg(client, "mainLine", s.mainLineId),
     Msg(client, "status", s.status),
     Msg(client, "history", getTransitionsOnly(s.history)),
     Msg(client, "settings", getPublicSettings(s.settings)) >>

ConnectionEvent(client) ==
  /\ client \notin Connected
  /\ clients' = Append(clients, client)
  /\ sent' = synchronise(client, session)
  /\ last' = Event("connection", TRUE, client, NoLine, {}, "")
  /\ UNCHANGED <<session, globalSettings, handlers, afterClear>>
  /\ UNCHANGED updater

\* A clearCache that keeps the entry.
clearCacheKeeps(s, host) == s

clearCache(s, host) == [s EXCEPT !.settings = With(s.settings, host, None)]

DisconnectionEvent(client) ==
  /\ client \in Connected
  /\ clients' = SelectSeq(clients, LAMBDA c : c # client)
  /\ session' = clearCache(session, HostOf(client))
  /\ sent' = <<>>
  /\ last' = Event("disconnection", TRUE, client, NoLine,
                   IF Get(session.settings, HostOf(client)) # None
                   THEN {HostOf(client)} ELSE {}, "")
  /\ UNCHANGED <<globalSettings, handlers, afterClear>>
  /\ UNCHANGED updater


(***************************************************************************)
(* onLine.                                                                 *)
(***************************************************************************)
\* The orderIds of the first and of the last line of the shabad.
lineOrderIdRange(shabad) ==
  <<Lines(shabad)[1].orderId, Lines(shabad)[Len(Lines(shabad))].orderId>>

clampedLineOrderId(shabad, lineOrderId) ==
  OrNull(clamp(lineOrderId, lineOrderIdRange(shabad)[1], lineOrderIdRange(shabad)[2]))

\* ( lines.find( ( { orderId } ) => orderId === clamped ) || {} ).id
FindByOrderId(lines, clamped) ==
  IF clamped # None /\ \E i \in 1..Len(lines) : lines[i].orderId = clamped[1]
  THEN lines[CHOOSE i \in 1..Len(lines) :
               /\ lines[i].orderId = clamped[1]
               /\ \A j \in 1..(i - 1) : lines[j].orderId # clamped[1]].id
  ELSE Undefined

\* lines.find( ( { id } ) => newLineId === id ), held by its id
FindById(lines, id) ==
  IF \E i \in 1..Len(lines) : lines[i].id = id THEN id ELSE Undefined

newLineId(shabad, payload) ==
  IF Truthy(payload.lineId) THEN payload.lineId
  ELSE IF Truthy(FindByOrderId(Lines(shabad), clampedLineOrderId(shabad, payload.lineOrderId)))
       THEN FindByOrderId(Lines(shabad), clampedLineOrderId(shabad, payload.lineOrderId))
       ELSE Null

\* An isTransition that is the hint alone.
isTransitionHintOnly(transition, lineId) == transition

isTransition(transition, lineId) == transition \/ lineId = Null

\* const { lines = [] } = shabad || bani || {}
ContentLines(s) ==
  IF s.shabad # Null THEN Lines(s.shabad)
  ELSE IF s.bani # Null THEN Lines(s.bani) ELSE <<>>

\* shabad.lines[ 0 ] throws when there is no shabad, before any effect.
onLineThrows(s) == s.shabad = Null

\* The session after onLine has run to its end.
onLineSession(s, payload, transition) ==
  LET id == newLineId(s.shabad, payload)
  IN  [s EXCEPT !.viewedLines = @ \cup {id},
                !.lineId = id,
                !.history = update(@, FindById(ContentLines(s), id), isTransition(transition, id))]

\* An onLine that broadcasts the viewed lines before the line.
onLineSentViewedFirst(s, payload) ==
  LET id == newLineId(s.shabad, payload)
  IN  << Broadcast("viewedLines", s.viewedLines \cup {id}), Broadcast("line", id) >>

\* The broadcasts of onLine.
onLineSent(s, payload) ==
  LET id == newLineId(s.shabad, payload)
  IN  << Broadcast("line", id), Broadcast("viewedLines", s.viewedLines \cup {id}) >>

onLine(s, payload, transition) ==
  IF onLineThrows(s)
  THEN [threw |-> TRUE, session |-> s, sent |-> <<>>,
        line |-> [called |-> TRUE, threw |-> TRUE, payload |-> payload,
                  transition |-> transition, newLineId |-> Undefined]]
  ELSE [threw |-> FALSE, session |-> onLineSession(s, payload, transition),
        sent |-> onLineSent(s, payload),
        line |-> [called |-> TRUE, threw |-> FALSE, payload |-> payload,
                  transition |-> transition, newLineId |-> newLineId(s.shabad, payload)]]

Selected(after) == IF after = "cleared" THEN "selected" ELSE ""

LineEvent(client, payload) ==
  /\ client \in Connected
  /\ Len(session.history) < MaxHistory
  /\ LET r == onLine(session, payload, FALSE)
     IN  /\ session' = r.session
         /\ sent' = r.sent
         /\ last' = Event("line", ~r.threw, "", r.line, {}, "")
  /\ afterClear' = Selected(afterClear)
  /\ UNCHANGED <<globalSettings, clients, handlers>>
  /\ UNCHANGED updater

(***************************************************************************)
(* onMainLine, onClearHistory, setStatus.                                  *)
(***************************************************************************)
MainLineEvent(client, mainLineId) ==
  /\ client \in Connected
  /\ sent' = <<Broadcast("mainLine", mainLineId)>>
  /\ session' = [session EXCEPT !.mainLineId = mainLineId]
  /\ last' = Event("mainLine", TRUE, "", NoLine, {}, "")
  /\ UNCHANGED <<globalSettings, clients, handlers, afterClear>>
  /\ UNCHANGED updater

ClearHistoryEvent(client) ==
  /\ client \in Connected
  /\ session' = [session EXCEPT !.history = MarkStale(reset(@))]
  /\ sent' = <<Broadcast("history", getTransitionsOnly(session'.history))>>
  /\ last' = Event("clearHistory", TRUE, "", NoLine, {}, "")
  /\ afterClear' = "cleared"
  /\ UNCHANGED <<globalSettings, clients, handlers>>
  /\ UNCHANGED updater

SetStatus(status) ==
  /\ session' = [session EXCEPT !.status = status]
  /\ sent' = <<Broadcast("status", status)>>
  /\ last' = Event("status", TRUE, "", NoLine, {}, "")
  /\ UNCHANGED <<globalSettings, clients, handlers, afterClear>>
  /\ UNCHANGED updater

(***************************************************************************)
(* onShabad: two lookups, each a suspension point.                         *)
(***************************************************************************)
\* The pending invocations without the h-th.
Settle(h) == [i \in 1..(Len(handlers) - 1) |-> IF i < h THEN handlers[i] ELSE handlers[i + 1]]

\* The pending invocations after the h-th has applied its content: the ones
\* that arrived before it are overtaken.
Applied(h) ==
  [i \in 1..(Len(handlers) - 1) |->
     IF i < h THEN [handlers[i] EXCEPT !.overtaken = TRUE] ELSE handlers[i + 1]]

\* Runs to the first await: getShabadRange() is requested.
ShabadEvent(client, payload, pending) ==
  /\ client \in Connected
  /\ Len(handlers) < pending
  /\ handlers' = Append(handlers,
       [Handler EXCEPT !.pc = "getShabadRange", !.client = client, !.payload = payload])
  /\ sent' = <<>>
  /\ last' = Event("shabad", TRUE, "", NoLine, {}, "")
  /\ UNCHANGED <<session, globalSettings, clients, afterClear>>
  /\ UNCHANGED updater

\* shabadOrderId = null by default, and toNumber( null ) is 0.
clampedShabadOrderId(shabadOrderId, range) ==
  OrNull(clamp(IF shabadOrderId = None THEN Some(0) ELSE shabadOrderId, range[1], range[2]))

\* shabadOrderId ? ... : ...
ByOrderId(shabadOrderId) == shabadOrderId # None /\ shabadOrderId # Some(0)

\* getShabadRange() settles; on success the shabad lookup is requested.
ShabadRangeSettled(h, outcome, range) ==
  /\ h \in 1..Len(handlers)
  /\ handlers[h].pc = "getShabadRange"
  /\ IF outcome = "value"
     THEN LET shabadOrderId == handlers[h].payload.shabadOrderId
          IN  handlers' = [handlers EXCEPT ![h] =
                [handlers[h] EXCEPT
                   !.pc = "getShabad",
                   !.range = range,
                   !.fn = IF ByOrderId(shabadOrderId)
                          THEN "getShabadByOrderId" ELSE "getShabad",
                   !.ord = IF ByOrderId(shabadOrderId)
                           THEN clampedShabadOrderId(shabadOrderId, range) ELSE None,
                   !.id = IF ByOrderId(shabadOrderId)
                          THEN Undefined ELSE handlers[h].payload.shabadId]]
     ELSE handlers' = Settle(h)
  /\ sent' = <<>>
  /\ last' = Event("shabadRange", outcome = "value", "", NoLine, {},
                   IF outcome = "value" THEN "found" ELSE "failed")
  /\ UNCHANGED <<session, globalSettings, clients, afterClear>>
  /\ UNCHANGED updater

\* The value the shabad lookup of a handler resolves to.
ShabadLookup(handler) ==
  IF handler.fn = "getShabadByOrderId"
  THEN getShabadByOrderId(handler.ord) ELSE getShabad(handler.id)

\* A handler that goes on without a shabad.
ShabadNeverThrows(shabad) == FALSE

\* `Setting Shabad ID to ${shabad.id}` throws when there is no shabad.
ShabadThrows(shabad) == shabad = Null

\* The session as onShabad sets it, before the line selection.
onShabadSession(s, shabad) ==
  [s EXCEPT !.shabad = shabad, !.bani = Null, !.viewedLines = {}, !.mainLineId = Null]

\* An onShabad that rebroadcasts the history before it selects the line.
onShabadSentHistoryFirst(s, shabad, r) ==
  <<Broadcast("shabad", shabad), Broadcast("history", getTransitionsOnly(s.history))>>
    \o r.sent

\* The broadcasts of onShabad on the session s, r being the result of its
\* line selection: the content, those of onLine, then the history.
onShabadSent(s, shabad, r) ==
  <<Broadcast("shabad", shabad)>> \o r.sent \o
    (IF r.threw THEN <<>>
     ELSE <<Broadcast("history", getTransitionsOnly(r.session.history))>>)

\* The shabad lookup settles; with a shabad the rest of onShabad runs.
ShabadSettled(h, outcome) ==
  /\ h \in 1..Len(handlers)
  /\ handlers[h].pc = "getShabad"
  /\ Len(session.history) < MaxHistory
  /\ LET shabad == IF outcome = "value" THEN ShabadLookup(handlers[h]) ELSE Null
         r == onLine(onShabadSession(session, shabad), handlers[h].payload.rest, TRUE)
     IN  IF outcome = "rejected" \/ ShabadThrows(shabad)
         THEN /\ handlers' = Settle(h)
              /\ sent' = <<>>
              /\ last' = Event("shabadSettled", FALSE, "", NoLine, {}, "failed")
              /\ UNCHANGED <<session, afterClear>>
         ELSE /\ handlers' = Applied(h)
              /\ session' = r.session
              /\ sent' = onShabadSent(session, shabad, r)
              /\ last' = Event("shabadSettled", ~r.threw, "", r.line, {},
                               IF shabad = Null THEN "failed" ELSE "found")
              /\ afterClear' = Selected(afterClear)
  /\ UNCHANGED <<globalSettings, clients>>
  /\ UNCHANGED updater

(***************************************************************************)
(* onBani: one lookup.                                                     *)
(***************************************************************************)
BaniEvent(client, baniId, pending) ==
  /\ client \in Connected
  /\ Len(handlers) < pending
  /\ handlers' = Append(handlers,
       [Handler EXCEPT !.pc = "getBaniLines", !.client = client, !.baniId = baniId])
  /\ sent' = <<>>
  /\ last' = Event("bani", TRUE, "", NoLine, {}, "")
  /\ UNCHANGED <<session, globalSettings, clients, afterClear>>
  /\ UNCHANGED updater

\* const { lines: [ firstLine ] } = bani; const { id } = firstLine
\* throws when there is no bani or no first line.
FirstLineThrows(bani) == bani = Null \/ Lines(bani) = <<>>

\* An onBani that leaves the shabad in place.
onBaniSessionKeepsShabad(s, bani) ==
  [s EXCEPT !.bani = bani, !.viewedLines = {}]

\* The session as onBani sets it, before the line selection.
onBaniSession(s, bani) ==
  [s EXCEPT !.bani = bani, !.shabad = Null, !.viewedLines = {}]

\* The bani lookup settles; with a bani the rest of onBani runs, as far as
\* the line selection lets it.
BaniSettled(h, outcome) ==
  /\ h \in 1..Len(handlers)
  /\ handlers[h].pc = "getBaniLines"
  /\ Len(session.history) < MaxHistory
  /\ LET bani == IF outcome = "value" THEN getBaniLines(handlers[h].baniId) ELSE Null
     IN  IF outcome = "rejected" \/ FirstLineThrows(bani)
         THEN /\ handlers' = Settle(h)
              /\ sent' = <<>>
              /\ last' = Event("baniSettled", FALSE, "", NoLine, {}, "failed")
              /\ UNCHANGED <<session, afterClear>>
         ELSE LET r == onLine(onBaniSession(session, bani),
                              StringPayload(Lines(bani)[1].id), TRUE)
              IN  /\ handlers' = Applied(h)
                  /\ session' = r.session
                  /\ sent' = <<Broadcast("bani", bani)>> \o r.sent \o
                       (IF r.threw THEN <<>>
                        ELSE <<Broadcast("history", getTransitionsOnly(r.session.history))>>)
                  /\ last' = Event("baniSettled", ~r.threw, "", r.line, {},
                                   IF bani = Null \/ Lines(bani) = <<>>
                                   THEN "failed" ELSE "found")
                  /\ afterClear' = Selected(afterClear)
  /\ UNCHANGED <<globalSettings, clients>>
  /\ UNCHANGED updater


(***************************************************************************)
(* onSettings.                                                             *)
(***************************************************************************)
SettingsPayload(local, global, rest) == [local |-> local, global |-> global, rest |-> rest]

\* settingsManager.merge( global ), with global = {} by default
mergeGlobal(settings, global) ==
  IF global = None THEN settings ELSE mergeObject(settings, global[1])

\* merge.all( [ settings, rest, { [ host ]: local } ], { arrayMerge } )
mergeAll(settings, rest, host, local) ==
  deepmerge(deepmerge(settings, rest), With(EmptyObject, host, local))

\* The settings message of one client.
SettingsFor(client, settings, global) ==
  With(With(With(getPublicSettings(settings), HostOf(client), None),
            "local", Get(settings, HostOf(client))),
       "global", Some(global))

SettingsEvent(client, payload) ==
  /\ client \in Connected
  /\ globalSettings' = mergeGlobal(globalSettings, payload.global)
  /\ session' = [session EXCEPT !.settings =
                   mergeAll(@, payload.rest, HostOf(client), payload.local)]
  /\ sent' = [i \in 1..Len(clients) |->
                Msg(clients[i], "settings",
                    SettingsFor(clients[i], session'.settings, globalSettings'))]
  /\ last' = Event("settings", TRUE, client, NoLine, {HostOf(client)} \cup DOMAIN payload.rest, "")
  /\ UNCHANGED <<clients, handlers, afterClear>>
  /\ UNCHANGED updater

Private == Obj(Some(TRUE), None, None)
Public == Obj(Some(FALSE), None, None)
Dark == Obj(None, Some("dark"), None)

SettingsPayloads ==
  {SettingsPayload(Some(Private), None, EmptyObject),
   SettingsPayload(Some(Dark), None, EmptyObject),
   SettingsPayload(None, None, With(EmptyObject, "h1", Some(Dark)))}

DarkTagged == Obj(None, Some("dark"), Some(<<"a">>))
Retagged == Obj(None, None, Some(<<"b">>))

\* Payloads with a local fragment only: a scalar, an array and the nested flag.
MergePayloads ==
  {SettingsPayload(Some(DarkTagged), None, EmptyObject),
   SettingsPayload(Some(Retagged), None, EmptyObject),
   SettingsPayload(Some(Private), None, EmptyObject)}

(***************************************************************************)
(* The specifications.  Every one takes every step of the program; they    *)
(* differ in the inputs they draw the events from: Spec exercises the      *)
(* navigation with one client, SpecSettings the settings of three clients  *)
(* on two hosts, SpecSync the connection push with every field set, and    *)
(* SpecLookup the ordinals of a shabad event against the ranges.           *)
(***************************************************************************)
Inputs(cs, shabads, ranges, lines, banis, mainLines, statuses, settings, pending) ==
  [clients |-> cs, shabads |-> shabads, ranges |-> ranges, lines |-> lines,
   banis |-> banis, mainLines |-> mainLines, statuses |-> statuses,
   settings |-> settings, pending |-> pending]

NextOn(in) ==
  \/ \E client \in in.clients : ConnectionEvent(client)
  \/ \E client \in in.clients : DisconnectionEvent(client)
  \/ \E client \in in.clients, payload \in in.shabads :
       ShabadEvent(client, payload, in.pending)
  \/ \E h \in 1..in.pending, outcome \in Outcomes, range \in in.ranges :
       ShabadRangeSettled(h, outcome, range)
  \/ \E h \in 1..in.pending, outcome \in Outcomes : ShabadSettled(h, outcome)
  \/ \E client \in in.clients, payload \in in.lines : LineEvent(client, payload)
  \/ \E client \in in.clients, id \in in.mainLines : MainLineEvent(client, id)
  \/ \E client \in in.clients : ClearHistoryEvent(client)
  \/ \E client \in in.clients, id \in in.banis : BaniEvent(client, id, in.pending)
  \/ \E h \in 1..in.pending, outcome \in Outcomes : BaniSettled(h, outcome)
  \/ \E client \in in.clients, payload \in in.settings : SettingsEvent(client, payload)
  \/ \E status \in in.statuses : SetStatus(status)

\* Navigation: one client, every kind of selection.
Next ==
  NextOn(Inputs({"c1"}, ShabadPayloads, {<<1, 2>>}, LinePayloads, BaniPayloads,
                {"l1"}, {Null}, {SettingsPayload(None, None, EmptyObject)}, MaxPending))

Spec == Init /\ [][Next]_vars

\* Settings: three clients on two hosts; no selection finds its content.
NextSettings ==
  NextOn(Inputs(Clients, {ShabadPayload("sX", None, LinePayload(Undefined, None))},
                {<<1, 2>>}, {LinePayload("l2", None)}, {"bX"}, {Null}, {Null},
                SettingsPayloads, MaxPending))

SpecSettings == Init /\ [][NextSettings]_vars

\* Synchronisation: two clients, one selection of each kind, every field set.
NextSync ==
  NextOn(Inputs({"c1", "c2"}, {ShabadPayload("s1", None, LinePayload("l1", None))},
                {<<1, 2>>}, {LinePayload("l2", None)}, {"b1"}, {"l1"}, {"ready"},
                {SettingsPayload(Some(Private), Some(Dark), EmptyObject)}, MaxPending))

SpecSync == Init /\ [][NextSync]_vars

\* Lookups: every ordinal of a shabad event against every range.
NextLookup ==
  NextOn(Inputs({"c1"}, OrdinalPayloads, ShabadRanges, {LinePayload("l2", None)}, {"bX"},
                {Null}, {Null}, {SettingsPayload(None, None, EmptyObject)}, MaxPending))

SpecLookup == Init /\ [][NextLookup]_vars

\* Merging: three clients on two hosts send local fragments with arrays; one
\* lookup at most is pending, as no lookup reads or writes the settings.
NextMerge ==
  NextOn(Inputs(Clients, {ShabadPayload("sX", None, LinePayload(Undefined, None))},
                {<<1, 2>>}, {LinePayload("l2", None)}, {"bX"}, {Null}, {Null},
                MergePayloads, 1))

SpecMerge == Init /\ [][NextMerge]_vars

\* Races: one client sends selections of two shabads and a bani while
\* earlier ones are still suspended on their lookups.
NextRace ==
  NextOn(Inputs({"c1"},
                {ShabadPayload("s1", None, LinePayload(Undefined, None)),
                 ShabadPayload("s2", None, LinePayload(Undefined, None))},
                {<<1, 2>>}, {LinePayload("l2", None)}, {"b1"}, {Null}, {Null},
                {SettingsPayload(None, None, EmptyObject)}, MaxRacing))

SpecRace == Init /\ [][NextRace]_vars

\* Resolution: line events with ids and ordinals on two shabads and a bani.
NextResolve ==
  NextOn(Inputs({"c1"},
                {ShabadPayload("s1", None, LinePayload(Undefined, None)),
                 ShabadPayload("s2", None, LinePayload(Undefined, None))},
                {<<1, 2>>}, ResolvePayloads, {"b1"}, {Null}, {Null},
                {SettingsPayload(None, None, EmptyObject)}, MaxPending))

SpecResolve == Init /\ [][NextResolve]_vars


(***************************************************************************)
(* The Updater: start, updateLoop, checkDatabaseUpdates, isLatestDatabase, *)
(* updateDatabase and checkApplicationUpdates.  A step runs a handler from *)
(* one await to the next; what follows the settling of fn() in updateLoop  *)
(* (the catch and the setTimeout) runs with the step that settles it.      *)
(***************************************************************************)
sessionVars == <<session, globalSettings, clients, handlers, sent, last, afterClear>>

\* An updateLoop without the catch: a rejection ends the loop.
RescheduledAfterSuccess(outcome) == outcome # "rejected"

\* await fn().catch( error => logger.error( error ) ), then setTimeout:
\* the next iteration is scheduled however fn() settled.
Rescheduled(outcome) == TRUE

\* An awaited step that goes on after a rejection.
StepNeverThrows(outcome) == FALSE

\* An awaited step throws in its handler when its promise rejects.
StepThrows(outcome) == outcome = "rejected"

\* updateLoop( updateFunction ) up to its await: with automatic updates the
\* update function runs to its first await, without fn resolves at once.
updateLoop(u, loop) ==
  LET fn == IF ~u.enabled THEN "resolved"
            ELSE IF loop = "database" THEN "isLatestDatabase" ELSE "update-check"
      v == [u EXCEPT !.run[loop] = fn, !.timer[loop] = FALSE]
  IN  IF loop = "database"
      THEN [v EXCEPT !.version = <<>>, !.emitted = <<>>, !.done = {}, !.failed = FALSE]
      ELSE v

\* fn() has settled: the run is over and the timer is set.
Settled(u, loop, outcome) ==
  [u EXCEPT !.run[loop] = "none", !.timer[loop] = Rescheduled(outcome)]

Step(u, op, loop, outcome) == [u EXCEPT !.op = op, !.loop = loop, !.outcome = outcome]

\* start(): the database loop and, under electron, the application loop.
Start ==
  /\ \A l \in Loops : updater.run[l] = "idle"
  /\ LET db == updateLoop(updater, "database")
     IN  updater' = Step(IF updater.electron THEN updateLoop(db, "application") ELSE db,
                         "start", "", "")
  /\ UNCHANGED sessionVars

\* The timer of a loop fires: () => this.updateLoop( updateFunction ).
Timeout(loop) ==
  /\ updater.timer[loop]
  /\ updater' = Step(updateLoop(updater, loop), "timeout", loop, "")
  /\ UNCHANGED sessionVars

\* fn = () => Promise.resolve() has settled.
Skipped(loop) ==
  /\ updater.run[loop] = "resolved"
  /\ updater' = Step(Settled(updater, loop, "value"), "settled", loop, "value")
  /\ UNCHANGED sessionVars

\* The two reads of isLatestDatabase settle; on success checkDatabaseUpdates
\* goes on to its return or to the first await of updateDatabase.
VersionsRead(outcome, local, remote) ==
  /\ updater.run["database"] = "isLatestDatabase"
  /\ LET read == [updater EXCEPT !.version = <<local, remote>>,
                                 !.emitted = Append(@, "database-version")]
     IN  updater' =
           Step(IF StepThrows(outcome)
                THEN Settled([updater EXCEPT !.failed = TRUE], "database", "rejected")
                ELSE IF local = remote
                THEN Settled(read, "database", "value")
                ELSE [read EXCEPT !.emitted = Append(@, "database-update"),
                                  !.run["database"] = UpdateSteps[1],
                                  !.failed = outcome = "rejected"],
                "isLatestDatabase", "database", outcome)
  /\ UNCHANGED sessionVars

\* An awaited step of updateDatabase settles; after the move the module is
\* re-imported, which may throw, and 'database-updated' is emitted.
StepSettled(outcome, importThrows) ==
  /\ \E i \in 1..Len(UpdateSteps) : updater.run["database"] = UpdateSteps[i]
  /\ LET i == CHOOSE i \in 1..Len(UpdateSteps) : updater.run["database"] = UpdateSteps[i]
         u == [updater EXCEPT !.failed = @ \/ outcome = "rejected",
                              !.done = IF outcome = "rejected" THEN @
                                       ELSE @ \cup {UpdateSteps[i]}]
     IN  updater' =
           Step(IF StepThrows(outcome) THEN Settled(u, "database", "rejected")
                ELSE IF i < Len(UpdateSteps)
                THEN [u EXCEPT !.run["database"] = UpdateSteps[i + 1]]
                ELSE IF importThrows
                THEN Settled([u EXCEPT !.failed = TRUE], "database", "rejected")
                ELSE Settled([u EXCEPT !.done = @ \cup {"importFresh"},
                                       !.emitted = Append(@, "database-updated")],
                             "database", "value"),
                UpdateSteps[i], "database",
                IF i = Len(UpdateSteps) /\ outcome # "rejected" /\ importThrows
                THEN "rejected" ELSE outcome)
  /\ UNCHANGED sessionVars

\* The promise of checkApplicationUpdates settles: 'update-checked' has come
\* from the electron shell, or sendToElectron threw.
ApplicationChecked(outcome) ==
  /\ updater.run["application"] = "update-check"
  /\ updater' = Step(Settled(updater, "application", outcome),
                     "update-check", "application", outcome)
  /\ UNCHANGED sessionVars

\* The setting system.automaticUpdates is changed.
SetAutomaticUpdates(enabled) ==
  /\ updater.enabled # enabled
  /\ updater' = Step([updater EXCEPT !.enabled = enabled], "setting", "", "")
  /\ UNCHANGED sessionVars

InitUpdater ==
  /\ session = [bani |-> Null, lineId |-> Null, shabad |-> Null, viewedLines |-> {},
                mainLineId |-> Null, history |-> <<>>, settings |-> EmptyObject,
                status |-> Null]
  /\ globalSettings = EmptyObj
  /\ clients = <<>>
  /\ handlers = <<>>
  /\ sent = <<>>
  /\ last = Event("init", TRUE, "", NoLine, {}, "")
  /\ afterClear = ""
  /\ \E electron \in BOOLEAN, enabled \in BOOLEAN :
       updater = Constructed(electron, enabled)

NextUpdater ==
  \/ Start
  \/ \E loop \in Loops : Timeout(loop)
  \/ \E loop \in Loops : Skipped(loop)
  \/ \E outcome \in {"rejected", "value"}, local \in Versions, remote \in Versions :
       VersionsRead(outcome, local, remote)
  \/ \E outcome \in {"rejected", "value"}, importThrows \in BOOLEAN :
       StepSettled(outcome, importThrows)
  \/ \E outcome \in {"rejected", "value"} : ApplicationChecked(outcome)
  \/ \E enabled \in BOOLEAN : SetAutomaticUpdates(enabled)

\* The event loop runs every timer that is due.
SpecUpdater ==
  InitUpdater /\ [][NextUpdater]_vars /\ \A loop \in Loops : WF_vars(Timeout(loop))


(***************************************************************************)
(* Properties.                                                             *)
(***************************************************************************)
\* The content the snapshot holds: the bani if set, else the shabad.
ActiveContent(s) == IF s.bani # Null THEN s.bani ELSE s.shabad

SettingsMessages == {i \in 1..Len(sent) : sent[i].event = "settings"}

\* C1: in the state right after a content selection (onShabad or onBani) has
\* replaced the content and made its line selection, every member of
\* viewedLines is the id of a line of the newly active content (so no id that
\* belongs only to the previous content is a member).
C1_ViewedLinesWithinNewContent ==
  (last.op \in {"shabadSettled", "baniSettled"} /\ last.line.called)
    => session.viewedLines \subseteq LineIds(ActiveContent(session))

\* C2: while the stored entry of host H is private, no 'settings' message
\* delivered to a client on another host (by synchronise or by the rebroadcast
\* of onSettings) carries a value for H.
C2_PrivateHostNeverDelivered ==
  \A i \in SettingsMessages, H \in Hosts :
    (IsPrivate(Get(session.settings, H)) /\ HostOf(sent[i].to) # H)
      => Get(sent[i].payload, H) = None

\* C2 witness: the rebroadcast of onSettings reaches a client on another host
\* while H's entry is private and holds another field as well.
C2_Witness ==
  /\ last.op = "settings"
  /\ \E i \in SettingsMessages, H \in Hosts :
       /\ IsPrivate(Get(session.settings, H))
       /\ session.settings[H][1].theme # None
       /\ HostOf(sent[i].to) # H

\* C3: every 'settings' message sent to a client of host H, by the rebroadcast
\* or by the connect-time push, carries no value under key H.
C3_OwnHostNotInPublicPortion ==
  \A i \in SettingsMessages : Get(sent[i].payload, HostOf(sent[i].to)) = None


\* C4: selecting a bani whose lookup returns at least one line broadcasts
\* 'bani' with the content, then 'line' with the first line's id, then
\* 'viewedLines' equal to exactly that id, appends exactly one history entry
\* for the first line flagged as a transition, and then broadcasts the
\* transitions-only history.
C4_BaniSelectsFirstLine ==
  [][(last'.op = "baniSettled" /\ last'.lookup = "found")
       => LET first == Lines(session'.bani)[1].id
          IN  /\ Len(sent') = 4
              /\ sent'[1] = Broadcast("bani", session'.bani)
              /\ sent'[2] = Broadcast("line", first)
              /\ sent'[3] = Broadcast("viewedLines", {first})
              /\ sent'[4] = Broadcast("history", getTransitionsOnly(session'.history))
              /\ session'.history = Append(session.history, Entry(first, TRUE))]_vars

\* C5: a 'line' event with an explicit lineId and no transition hint, received
\* while a shabad or a bani is active, broadcasts 'line' with that id and
\* 'viewedLines' equal to the previous viewed set plus that id, and leaves the
\* transitions-only projection of the history as it was.
C5_ExplicitLineIsNoTransition ==
  [][(/\ last'.op = "line"
      /\ Truthy(last'.line.payload.lineId)
      /\ ActiveContent(session) # Null)
       => /\ Len(sent') = 2
          /\ sent'[1] = Broadcast("line", last'.line.payload.lineId)
          /\ sent'[2] = Broadcast("viewedLines",
                                  session.viewedLines \cup {last'.line.payload.lineId})
          /\ getTransitionsOnly(session'.history) = getTransitionsOnly(session.history)]_vars

NoStaleEntry == \A i \in 1..Len(session.history) : ~session.history[i].stale

\* C6 (as claimed): after a clearHistory followed by one new line selection
\* (here: one that ran to its end), the transitions-only history holds exactly
\* one entry, and none from before the clear.
C6_ExactlyOneAfterClear ==
  (afterClear = "selected" /\ last.line.called /\ ~last.line.threw)
    => (Len(getTransitionsOnly(session.history)) = 1 /\ NoStaleEntry)

\* C6 (amended): after a clearHistory followed by one line selection, the
\* history holds no entry from before the clear and at most one entry; the
\* transitions-only history holds exactly one entry, the one for that
\* selection, when the selection ran to its end as a transition (transition
\* hint, or resolved id null), and is empty otherwise.
C6_AtMostOneAfterClear ==
  /\ afterClear = "cleared" => session.history = <<>>
  /\ afterClear = "selected" =>
       /\ NoStaleEntry
       /\ Len(session.history) <= 1
       /\ last.line.called =>
            getTransitionsOnly(session.history) =
              IF ~last.line.threw /\ (last.line.transition \/ last.line.newLineId = Null)
              THEN <<Entry(FindById(ContentLines(session), last.line.newLineId), TRUE)>>
              ELSE <<>>

\* C6 witness: the one line selection after a clearHistory is a line event
\* that resolves to null, and its entry is the one transition entry.
C6_Witness ==
  /\ afterClear = "selected"
  /\ last.op = "line"
  /\ ~last.line.threw
  /\ last.line.newLineId = Null
  /\ Len(getTransitionsOnly(session.history)) = 1

\* C7: when a lookup of onShabad or onBani fails (rejects, or resolves to no
\* content), the handler stops with the snapshot as it was, emits no
\* broadcast, and leaves no lookup pending for that invocation.
C7_LookupFailureAborts ==
  [][last'.lookup = "failed"
       => /\ session' = session
          /\ sent' = <<>>
          /\ Len(handlers') = Len(handlers) - 1]_vars

\* C7 witness: a shabad lookup failed while a shabad with viewed lines was
\* active, and the snapshot still holds it.
C7_Witness ==
  /\ last.op = "shabadSettled"
  /\ last.lookup = "failed"
  /\ session.shabad # Null
  /\ session.viewedLines # {}
  /\ session.history # <<>>

\* The ordinal clamped into [min, max].
Clamped(n, min, max) == IF n < min THEN min ELSE IF n > max THEN max ELSE n

\* C8: for every shabad event that supplies a shabadOrderId and every range,
\* the repository is asked for the shabad at clamp(shabadOrderId, min, max);
\* the by-id lookup is used only when no shabadOrderId was supplied.
C8_LookupAtClampedOrdinal ==
  \A h \in 1..Len(handlers) :
    handlers[h].pc = "getShabad" =>
      LET given == handlers[h].payload.shabadOrderId
          range == handlers[h].range
      IN  /\ given # None =>
               /\ handlers[h].fn = "getShabadByOrderId"
               /\ handlers[h].ord = Some(Clamped(given[1], range[1], range[2]))
          /\ handlers[h].fn = "getShabad" => given = None

\* The messages of a connection event, each sent to the new client alone and
\* in the order content, line, viewedLines, mainLine, status, history,
\* settings, with the given settings payload.
ConnectionSends(s, client, msgs, settings) ==
  /\ Len(msgs) = 7
  /\ \A i \in 1..7 : msgs[i].to = client
  /\ msgs[1].event = IF s.bani # Null THEN "bani" ELSE "shabad"
  /\ msgs[1].payload = IF s.bani # Null THEN s.bani ELSE s.shabad
  /\ msgs[2].event = "line" /\ msgs[2].payload = s.lineId
  /\ msgs[3].event = "viewedLines" /\ msgs[3].payload = s.viewedLines
  /\ msgs[4].event = "mainLine" /\ msgs[4].payload = s.mainLineId
  /\ msgs[5].event = "status" /\ msgs[5].payload = s.status
  /\ msgs[6].event = "history" /\ msgs[6].payload = getTransitionsOnly(s.history)
  /\ msgs[7].event = "settings" /\ msgs[7].payload = settings

C10_RemovedHostStaysOut ==
  [][/\ last'.op = "disconnection" =>
          /\ sent' = <<>>
          /\ Get(getPublicSettings(session'.settings), HostOf(last'.client)) = None
     /\ \A H \in Hosts :
          (/\ Get(getPublicSettings(session.settings), H) = None
           /\ ~(last'.op = "settings" /\ H \in last'.names))
            => /\ Get(getPublicSettings(session'.settings), H) = None
               /\ \A i \in 1..Len(sent') :
                    sent'[i].event = "settings" => Get(sent'[i].payload, H) = None]_vars

\* C10 witness: a disconnection removed a stored entry while another client
\* was still connected.
C10_Witness ==
  /\ last.op = "disconnection"
  /\ last.names # {}
  /\ clients # <<>>

\* C11: after every content selection whose lookup found content, by shabad
\* or by bani, session.mainLineId is null, whatever an earlier mainLine event
\* gave it.
C11_SelectionClearsMainLine ==
  (last.op \in {"shabadSettled", "baniSettled"} /\ last.lookup = "found")
    => session.mainLineId = Null

\* The entry a host has after sending the local fragment L over its previous
\* entry: every field L gives replaces the previous one (an array as a whole),
\* every field L leaves out is kept.
MergedEntry(prev, L) ==
  [f \in {"private", "theme", "tags"} |->
     IF L[f] # None THEN L[f] ELSE IF prev = None THEN None ELSE prev[1][f]]

\* What a settings event from `client` with local fragment L only does to the
\* stored entries, and what it delivers to the clients on the hosts `to`.
MergesLocal(client, payload, to) ==
  LET H == HostOf(client)
      now == Get(session'.settings, H)
  IN  /\ now = Some(MergedEntry(Get(session.settings, H), payload.local[1]))
      /\ \A G \in Hosts \ {H} : Get(session'.settings, G) = Get(session.settings, G)
      /\ \A c \in Connected \ {client} :
           (HostOf(c) \in to /\ ~IsPrivate(now))
             => \E i \in 1..Len(sent') :
                  /\ sent'[i].to = c
                  /\ sent'[i].event = "settings"
                  /\ Get(sent'[i].payload, H) = now

\* C12 (as claimed): a settings event from host H with local fragment L and
\* no fragment keyed by another host makes H's stored entry the merge of its
\* previous entry with L (arrays replaced, never concatenated), leaves every
\* other host's entry unchanged, and every other connected client receives
\* H's entry under key H when H is not private.
C12_LocalMergedAndDeliveredToAll ==
  [][\A client \in Clients, payload \in MergePayloads :
       (last'.op = "settings" /\ last'.client = client /\ SettingsEvent(client, payload))
         => MergesLocal(client, payload, Hosts)]_vars

\* C12 (amended): as claimed, except that H's entry is received under key H
\* by every other connected client on another host; a client on H itself
\* receives it under `local` only.
C12_LocalMergedAndDeliveredToOtherHosts ==
  [][\A client \in Clients, payload \in MergePayloads :
       (last'.op = "settings" /\ last'.client = client /\ SettingsEvent(client, payload)) =>
         /\ MergesLocal(client, payload, Hosts \ {HostOf(client)})
         /\ \A i \in 1..Len(sent') :
              HostOf(sent'[i].to) = HostOf(client) =>
                /\ Get(sent'[i].payload, HostOf(client)) = None
                /\ Get(sent'[i].payload, "local") = Get(session'.settings, HostOf(client))]_vars

\* C12 witness: host h1 had sent a theme with the array <<"a">> and then sent
\* the array <<"b">> alone, while a client on h2 and a second client on h1
\* were connected.
C12_Witness ==
  /\ last.op = "settings"
  /\ HostOf(last.client) = "h1"
  /\ Get(session.settings, "h1") = Some(Obj(None, Some("dark"), Some(<<"b">>)))
  /\ Connected = Clients

\* The content the last lookup of a suspended selection resolves to.
Resolved(handler) ==
  IF handler.pc = "getShabad" THEN ShabadLookup(handler) ELSE getBaniLines(handler.baniId)

\* C13: when a selection whose request arrived before another one's resolves
\* after it (the other's content has already been applied), its own content
\* is the active one afterwards, and its 'line', 'viewedLines' and 'history'
\* broadcasts are emitted after its content broadcast, as the last ones.
C13_LastResolvedWins ==
  [][\A h \in 1..Len(handlers) :
       (/\ last'.op \in {"shabadSettled", "baniSettled"}
        /\ last'.lookup = "found"
        /\ handlers[h].pc \in {"getShabad", "getBaniLines"}
        /\ handlers[h].overtaken
        /\ handlers' = Applied(h))
         => /\ ActiveContent(session') = Resolved(handlers[h])
            /\ Len(sent') = 4
            /\ sent'[1].payload = Resolved(handlers[h])
            /\ sent'[2].event = "line"
            /\ sent'[3].event = "viewedLines"
            /\ sent'[4].event = "history"]_vars

\* The events of a sequence of messages.
Events(msgs) == [i \in 1..Len(msgs) |-> msgs[i].event]

IsPrefix(p, q) == Len(p) <= Len(q) /\ \A i \in 1..Len(p) : p[i] = q[i]

\* C14: the broadcasts of one selection invocation form one contiguous run,
\* in the order the handler issues them: a step that leaves the invocation
\* suspended on a lookup emits nothing, and the step that ends it emits its
\* broadcasts together (the content, then 'line', 'viewedLines' and the
\* closing 'history'), whatever other selections are suspended meanwhile.
C14_OneContiguousRun ==
  [][/\ last'.op \in {"shabad", "bani", "shabadRange"} => sent' = <<>>
     /\ (last'.op \in {"shabadSettled", "baniSettled"} /\ sent' # <<>>) =>
          /\ Len(handlers') = Len(handlers) - 1
          /\ \A i \in 1..Len(sent') : sent'[i].to = "*"
          /\ IsPrefix(Events(sent'),
                      <<IF last'.op = "shabadSettled" THEN "shabad" ELSE "bani",
                        "line", "viewedLines", "history">>)
          /\ Len(sent') > 1 => sent'[Len(sent')].event = "history"]_vars

\* C14 witness: a shabad selection emits its four broadcasts while a bani
\* selection that arrived before it is still suspended on its lookup.
C14_Witness ==
  /\ last.op = "shabadSettled"
  /\ Events(sent) = <<"shabad", "line", "viewedLines", "history">>
  /\ Len(handlers) = 1
  /\ handlers[1].pc = "getBaniLines"
  /\ handlers[1].overtaken

\* C15: a shabad selection whose lookup found the shabad emits, in this
\* order, 'shabad' with the new content, 'line' with the resolved line id,
\* 'viewedLines', and 'history'; the 'history' payload is the transitions-only
\* log, and its last entry is the transition entry that this selection's own
\* line selection appended.
C15_ShabadBroadcastOrder ==
  [][(last'.op = "shabadSettled" /\ last'.lookup = "found")
       => LET log == sent'[4].payload
          IN  /\ Len(sent') = 4
              /\ sent'[1] = Broadcast("shabad", session'.shabad)
              /\ sent'[2] = Broadcast("line", last'.line.newLineId)
              /\ sent'[3] = Broadcast("viewedLines", session'.viewedLines)
              /\ sent'[4].to = "*" /\ sent'[4].event = "history"
              /\ log = getTransitionsOnly(session'.history)
              /\ Len(log) = Len(getTransitionsOnly(session.history)) + 1
              /\ log[Len(log)] = session'.history[Len(session'.history)]
              /\ Len(session'.history) = Len(session.history) + 1
              /\ log[Len(log)].isTransition]_vars

\* C15 witness: a second shabad selection, with an explicit line id, has
\* emitted its broadcasts; the rebroadcast history holds both transitions.
C15_Witness ==
  /\ last.op = "shabadSettled"
  /\ last.lookup = "found"
  /\ Truthy(last.line.newLineId)
  /\ Len(sent) = 4
  /\ Len(sent[4].payload) = 2

\* C16: in every reachable state at most one of session.shabad and
\* session.bani is non-null.
C16_AtMostOneContent == ~(session.shabad # Null /\ session.bani # Null)

\* C16 witness: a bani has just been selected while a shabad was active (the
\* history holds the shabad's entry and the line id is still the shabad's).
C16_Witness ==
  /\ last.op = "baniSettled"
  /\ last.lookup = "found"
  /\ session.bani # Null
  /\ session.history # <<>>
  /\ session.lineId # Null

\* C17: in every reachable state session.lineId is null or the id of a line
\* of the active content (the bani if set, else the shabad).
C17_LineIdWithinContent ==
  session.lineId = Null \/ session.lineId \in LineIds(ActiveContent(session))

\* C18: viewedLines never contains null (a line selection whose resolved id
\* is null leaves it unchanged), and every step that is no content change
\* leaves viewedLines as it is or adds to it.
C18_NullNeverViewed ==
  [][/\ (last'.line.called /\ ~last'.line.threw /\ last'.line.newLineId = Null
         /\ last'.op = "line")
          => session'.viewedLines = session.viewedLines
     /\ Null \notin session'.viewedLines
     /\ ~(last'.op \in {"shabadSettled", "baniSettled"} /\ last'.lookup = "found")
          => session.viewedLines \subseteq session'.viewedLines]_vars

\* C19: every line selection that runs to its end appends exactly one history
\* entry, whose transition flag is true exactly when the transition hint was
\* true or the resolved line id is null; so a selection that resolves to null
\* adds its entry to the transitions-only view.
C19_OneEntryPerSelection ==
  [][(last'.line.called /\ ~last'.line.threw)
       => LET before == session.history
              after == session'.history
              entry == after[Len(after)]
          IN  /\ Len(after) = Len(before) + 1
              /\ SubSeq(after, 1, Len(before)) = before
              /\ entry.isTransition =
                   (last'.line.transition \/ last'.line.newLineId = Null)
              /\ last'.op = "line" => ~last'.line.transition
              /\ last'.line.newLineId = Null =>
                   getTransitionsOnly(after) = Append(getTransitionsOnly(before), entry)]_vars

\* C19 witness: a line event without the hint resolved to null while the
\* history held an entry, and its entry is a transition.
C19_Witness ==
  /\ last.op = "line"
  /\ ~last.line.threw
  /\ ~last.line.transition
  /\ last.line.newLineId = Null
  /\ afterClear = ""
  /\ Len(session.history) = 2
  /\ session.history[2].isTransition

\* The id of the line of `lines` at the ordinal n clamped into the ordinals
\* of the first and the last line.
AtClamped(lines, n) ==
  LET at == Clamped(n, lines[1].orderId, lines[Len(lines)].orderId)
  IN  IF \E i \in 1..Len(lines) : lines[i].orderId = at
      THEN lines[CHOOSE i \in 1..Len(lines) : lines[i].orderId = at].id
      ELSE Null

\* The target of a line selection: the explicit id, else the line at the
\* clamped ordinal, else null.
Target(lines, payload) ==
  IF Truthy(payload.lineId) THEN payload.lineId
  ELSE IF payload.lineOrderId # None THEN AtClamped(lines, payload.lineOrderId[1])
  ELSE Null

\* C20: a line event received while a shabad is active does not fail and
\* resolves to the explicit lineId if given, else to the id of the line whose
\* orderId is the lineOrderId clamped into the ordinals of the first and the
\* last line (the lowest ordinal included), else to null.
C20_ResolvesTarget ==
  (last.op = "line" /\ session.shabad # Null)
    => /\ ~last.line.threw
       /\ last.line.newLineId = Target(Lines(session.shabad), last.line.payload)
       /\ session.lineId = last.line.newLineId

\* C21: in a run of checkDatabaseUpdates 'database-version' is emitted before
\* any other event; with equal local and remote versions neither
\* 'database-update' nor 'database-updated' is emitted; with different ones
\* 'database-update' is emitted before the first step of the download
\* starts, and 'database-updated' only after every step of updateDatabase
\* has succeeded, never after a failed step.
C21_DatabaseEventsInOrder ==
  LET e == updater.emitted
      steps == {UpdateSteps[i] : i \in 1..Len(UpdateSteps)}
  IN  /\ IsPrefix(e, <<"database-version", "database-update", "database-updated">>)
      /\ (updater.version # <<>> /\ updater.version[1] = updater.version[2])
           => /\ Len(e) <= 1
              /\ updater.done = {}
              /\ updater.run["database"] \notin steps
      /\ (updater.run["database"] \in steps \/ updater.done # {})
           => (Len(e) >= 2 /\ updater.version[1] # updater.version[2])
      /\ Len(e) = 3
           => (~updater.failed /\ updater.done = steps \cup {"importFresh"})
      /\ updater.failed => Len(e) < 3

\* C21 witness: a run found different versions and has emitted
\* 'database-updated' after the move and the re-import.
C21_Witness ==
  /\ updater.op = "move"
  /\ updater.outcome = "value"
  /\ updater.version = <<"1.0.0", "1.1.0">>
  /\ updater.emitted = <<"database-version", "database-update", "database-updated">>

\* A run of the loop is in progress.
Running(u, loop) == u.run[loop] \notin {"idle", "none"}

\* Between its runs a started loop has its timer pending, and only then.
LoopAlive ==
  \A l \in Loops :
    /\ updater.run[l] = "idle" => ~updater.timer[l]
    /\ updater.run[l] # "idle" => (updater.timer[l] <=> updater.run[l] = "none")

\* What a step does to the loops.
LoopStep ==
  \A l \in Loops :
    /\ (Running(updater, l) /\ ~Running(updater', l)) => updater'.timer[l]
    /\ (~Running(updater, l) /\ Running(updater', l)) =>
         /\ \/ updater'.op = "start"
            \/ updater'.op = "timeout" /\ updater'.loop = l /\ updater.timer[l]
         /\ updater'.run[l] = "resolved" <=> ~updater.enabled
    /\ Running(updater, l) => ~(updater'.op = "timeout" /\ updater'.loop = l)

\* C22: a started loop keeps running: after every run of its update function,
\* fulfilled or rejected, the timer of the next run is set, and a timer that
\* is set leads to the next iteration; a run starts only from start or from
\* that timer, so never before the previous run has settled; with automatic
\* updates disabled an iteration does not invoke the update function and
\* still sets the timer.
C22_LoopKeepsRunning ==
  /\ []LoopAlive
  /\ [][LoopStep]_vars
  /\ \A l \in Loops :
       updater.timer[l] ~> (updater.op = "timeout" /\ updater.loop = l)

\* C22 witness: a run of the database loop was rejected at the extraction
\* and its timer is set, while the application loop is in an iteration that
\* found automatic updates disabled.
C22_Witness ==
  /\ updater.op = "extract"
  /\ updater.outcome = "rejected"
  /\ updater.timer["database"]
  /\ ~updater.enabled
  /\ updater.run["application"] = "resolved"

====
